---------------------------- MODULE Spec2Model ----------------------------
(***************************************************************************)
(* Model of app.py: the model-comparison workflow (compare_models,         *)
(* query_model), the Gradio event handlers of one or more browser sessions *)
(* (show_results, record_preference, go_back) and the preference log       *)
(* preferences.csv written by save_preference_to_storage.                  *)
(*                                                                         *)
(* Text is modelled as a sequence of tokens (strings): a question is a     *)
(* sequence of characters, a CSV row is a sequence of cells, and a cell is *)
(* a sequence of tokens.                                                   *)
(***************************************************************************)
EXTENDS Integers, Sequences, FiniteSets, TLC

\* ------------------------------------------------------------------ bounds
\* longest question text typed into the textbox, in characters
MaxLen == 2

\* a preference click is followed while the log holds fewer data rows
MaxRows == 1

\* ------------------------------------------------------------ the registry
MODEL_MAP ==
    << <<"Llama 3.1 8B", "llama-3.1-8b-instant">>,
       <<"Llama 3.3 70B", "llama-3.3-70b-versatile">>,
       <<"GPT OSS 20B", "openai/gpt-oss-20b">>,
       <<"GPT OSS 120B", "openai/gpt-oss-120b">> >>

LENGTH_MAP == [Short |-> 150, Medium |-> 500, Full |-> 1500]

\* MODEL_MAP.keys(), in insertion order
MODEL_MAP_keys == [i \in 1..Len(MODEL_MAP) |-> MODEL_MAP[i][1]]

\* MODEL_MAP.get(name): <<id>> when the label is registered, <<>> for None
MODEL_MAP_get(name) ==
    IF \E i \in 1..Len(MODEL_MAP) : MODEL_MAP[i][1] = name
    THEN << MODEL_MAP[CHOOSE i \in 1..Len(MODEL_MAP) : MODEL_MAP[i][1] = name][2] >>
    ELSE << >>

\* the choices of the output-length radio
LengthChoices == {"Short", "Medium", "Full"}

\* the browser sessions connected to the app
Sessions == {1, 2}

\* ---------------------------------------------------------------- strings
Chars == {" ", "a", "b"}

Whitespace == {" "}

\* every text of at most n characters
Strings(n) == UNION { [1..k -> Chars] : k \in 0..n }

RECURSIVE lstrip(_)
lstrip(s) ==
    IF s # << >> /\ Head(s) \in Whitespace THEN lstrip(Tail(s)) ELSE s

RECURSIVE rstrip(_)
rstrip(s) ==
    IF s # << >> /\ s[Len(s)] \in Whitespace
    THEN rstrip(SubSeq(s, 1, Len(s) - 1))
    ELSE s

\* str.strip()
strip(s) == rstrip(lstrip(s))

\* sep.join(parts), every part one token
RECURSIVE join(_, _)
join(sep, parts) ==
    IF parts = << >> THEN << >>
    ELSE IF Len(parts) = 1 THEN << parts[1] >>
    ELSE << parts[1], sep >> \o join(sep, Tail(parts))

\* ------------------------------------------------------- inference client
\* client.chat.completions.create: one request to the service.  The text
\* that comes back (the completion, or the message of the exception the
\* call raises) is the service's answer to this very request; it is
\* written as the request it answers.
chat_completions_create(question, model_id, max_tokens, fails) ==
    [ raised |-> fails,
      text   |-> << model_id, ToString(max_tokens), "0.7" >> \o question ]

\* query_model repeating a failed request once before giving up
query_model_retry(model_name, question, max_tokens, fails) ==
    LET model_id == MODEL_MAP_get(model_name) IN
    IF model_id = << >>
    THEN [ response |-> << "Model ", model_name, " not available" >>,
           sent     |-> << >> ]
    ELSE LET r == chat_completions_create(question, model_id[1], max_tokens, fails)
             req == [model |-> model_id[1], question |-> question,
                     max_tokens |-> max_tokens, raised |-> r.raised] IN
         [ response |-> IF r.raised THEN << "Error: " >> \o r.text ELSE r.text,
           sent     |-> IF r.raised THEN << req, req >> ELSE << req >> ]

\* query_model returning str(e) without the marker
query_model_bare_message(model_name, question, max_tokens, fails) ==
    LET model_id == MODEL_MAP_get(model_name) IN
    IF model_id = << >>
    THEN [ response |-> << "Model ", model_name, " not available" >>,
           sent     |-> << >> ]
    ELSE LET r == chat_completions_create(question, model_id[1], max_tokens, fails) IN
         [ response |-> r.text,
           sent     |-> << [model |-> model_id[1], question |-> question,
                            max_tokens |-> max_tokens, raised |-> r.raised] >> ]

\* query_model: the response string, and the requests it sent, each with
\* whether the service answered it with an exception
query_model(model_name, question, max_tokens, fails) ==
    LET model_id == MODEL_MAP_get(model_name) IN
    IF model_id = << >>
    THEN [ response |-> << "Model ", model_name, " not available" >>,
           sent     |-> << >> ]
    ELSE LET r == chat_completions_create(question, model_id[1], max_tokens, fails) IN
         [ response |-> IF r.raised THEN << "Error: " >> \o r.text ELSE r.text,
           sent     |-> << [model |-> model_id[1], question |-> question,
                            max_tokens |-> max_tokens, raised |-> r.raised] >> ]

\* the list comprehension over zip(MODEL_MAP.keys(), selected_models)
RECURSIVE zip_filter(_, _, _)
zip_filter(keys, flags, i) ==
    IF i > Len(keys) \/ i > Len(flags) THEN << >>
    ELSE (IF flags[i] THEN << keys[i] >> ELSE << >>) \o zip_filter(keys, flags, i + 1)

\* the for loop of compare_models over selected[i..]; failing is the set of
\* model labels whose request raises
RECURSIVE query_loop(_, _, _, _, _, _)
query_loop(selected, i, question, max_tokens, failing, acc) ==
    IF i > Len(selected) THEN acc
    ELSE LET r == query_model(selected[i], question, max_tokens,
                              selected[i] \in failing) IN
         query_loop(selected, i + 1, question, max_tokens, failing,
                    [ results |-> Append(acc.results,
                                         [model |-> selected[i],
                                          response |-> r.response]),
                      calls   |-> acc.calls \o r.sent ])

\* compare_models testing the selection before the question
compare_models_selection_first(question, length, selected_models, failing) ==
    LET selected == zip_filter(MODEL_MAP_keys, selected_models, 1) IN
    IF selected = << >>
    THEN [ results |-> << >>, error |-> << "Please select at least one model." >>,
           calls |-> << >> ]
    ELSE IF strip(question) = << >>
    THEN [ results |-> << >>, error |-> << "Please enter a question." >>,
           calls |-> << >> ]
    ELSE LET r == query_loop(selected, 1, question, LENGTH_MAP[length], failing,
                             [results |-> << >>, calls |-> << >>]) IN
         [ results |-> << r.results >>, error |-> << >>, calls |-> r.calls ]

\* compare_models without the test of the selection
compare_models_no_selection_test(question, length, selected_models, failing) ==
    LET selected == zip_filter(MODEL_MAP_keys, selected_models, 1) IN
    IF strip(question) = << >>
    THEN [ results |-> << >>, error |-> << "Please enter a question." >>,
           calls |-> << >> ]
    ELSE LET r == query_loop(selected, 1, question, LENGTH_MAP[length], failing,
                             [results |-> << >>, calls |-> << >>]) IN
         [ results |-> << r.results >>, error |-> << >>, calls |-> r.calls ]

\* compare_models: the returned pair (None is << >>, a value v is << v >>)
\* and the outbound requests made on the way
compare_models(question, length, selected_models, failing) ==
    LET selected == zip_filter(MODEL_MAP_keys, selected_models, 1) IN
    IF strip(question) = << >>
    THEN [ results |-> << >>, error |-> << "Please enter a question." >>,
           calls |-> << >> ]
    ELSE IF selected = << >>
    THEN [ results |-> << >>, error |-> << "Please select at least one model." >>,
           calls |-> << >> ]
    ELSE LET r == query_loop(selected, 1, question, LENGTH_MAP[length], failing,
                             [results |-> << >>, calls |-> << >>]) IN
         [ results |-> << r.results >>, error |-> << >>, calls |-> r.calls ]

\* ------------------------------------------------------ preference storage
\* the dict comprehension {result["model"]: result["response"] ...}: an
\* ordered dict as a sequence of <<key, value>>; a repeated key keeps its
\* place and takes the later value
RECURSIVE dict_of(_, _, _)
dict_of(all_results, i, acc) ==
    IF i > Len(all_results) THEN acc
    ELSE LET k == all_results[i].model
             v == all_results[i].response IN
         dict_of(all_results, i + 1,
                 IF \E j \in 1..Len(acc) : acc[j][1] = k
                 THEN [j \in 1..Len(acc) |-> IF acc[j][1] = k THEN <<k, v>> ELSE acc[j]]
                 ELSE Append(acc, <<k, v>>))

\* all_responses.keys()
dict_keys(d) == [j \in 1..Len(d) |-> d[j][1]]

\* the members of a JSON object, "key": "value" separated by commas
RECURSIVE json_members(_, _)
json_members(d, i) ==
    IF i > Len(d) THEN << >>
    ELSE << "\"", d[i][1], "\"", ":", "\"" >> \o d[i][2] \o << "\"" >>
         \o (IF i < Len(d) THEN << "," >> ELSE << >>)
         \o json_members(d, i + 1)

\* json.dumps(all_responses, ensure_ascii=False)
json_dumps(d) == << "{" >> \o json_members(d, 1) \o << "}" >>

\* the header row written to a new file
HeaderRow ==
    << <<"timestamp">>, <<"question">>, <<"output_length">>,
       <<"selected_model">>, <<"all_models_compared">>, <<"all_responses_json">> >>

\* datetime.now().isoformat() at clock reading t
isoformat(t) == << ToString(t) >>

\* the data row with the response of the chosen model only
DataRow_chosen_only(t, question, length, selected_model, all_results) ==
    LET chosen == SelectSeq(all_results, LAMBDA r : r.model = selected_model)
        all_responses == dict_of(chosen, 1, << >>) IN
    << isoformat(t), question, << length >>, << selected_model >>,
       join("|", dict_keys(all_responses)), json_dumps(all_responses) >>

\* the data row of one preference
DataRow(t, question, length, selected_model, all_results) ==
    LET all_responses == dict_of(all_results, 1, << >>) IN
    << isoformat(t), question, << length >>, << selected_model >>,
       join("|", dict_keys(all_responses)), json_dumps(all_responses) >>

\* what save_preference_to_storage writes through the csv writer before the
\* file is closed
RowsWritten(file_existed, t, question, length, selected_model, all_results) ==
    (IF ~file_existed THEN << HeaderRow >> ELSE << >>)
    \o << DataRow(t, question, length, selected_model, all_results) >>

\* the data rows of a log
DataRows(rows) == SelectSeq(rows, LAMBDA r : r # HeaderRow)

\* ------------------------------------------------------------------ state
VARIABLES
    question_input,    \* per session: the text of the question textbox
    output_length,     \* per session: the chosen radio label
    model_checkboxes,  \* per session: the four checkbox values, registry order
    results_state,     \* per session: gr.State, the stored result list
    input_section,     \* per session: the input column is visible
    results_section,   \* per session: the results column is visible
    error_msg,         \* per session: [value, visible] of the error markdown
    question_display,  \* per session: the text above the result cards
    result_card,       \* per session: visibility of the four result cards
    pref_btn,          \* per session: visibility of the four preference buttons
    compare_ret,       \* per session: what compare_models last returned
    calls,             \* per session: requests sent by the last compare_models
    pc,                \* per session: where a running record_preference stands
    model_index,       \* per session: model_index of the last record_preference call
    file_exists,       \* per session: file_exists of the running save
    last_event,        \* per session: how the last handler ended
    csv_exists,        \* preferences.csv exists
    csv_rows,          \* the rows of preferences.csv
    now                \* the wall clock; every reading is later than the last

vars == << question_input, output_length, model_checkboxes, results_state,
           input_section, results_section, error_msg, question_display,
           result_card, pref_btn, compare_ret,
           calls, pc, model_index, file_exists, last_event, csv_exists,
           csv_rows, now >>

inputs == << question_input, output_length, model_checkboxes >>

view == << input_section, results_section, error_msg >>

cards == << question_display, result_card, pref_btn >>

storage == << csv_exists, csv_rows, now >>

locals == << pc, model_index, file_exists >>

\* the four result slots of the page
Slots == 1..4

\* the state of one session when the page is built
Init ==
    /\ question_input = [s \in Sessions |-> << >>]
    /\ output_length = [s \in Sessions |-> "Medium"]
    /\ model_checkboxes = [s \in Sessions |-> [i \in 1..Len(MODEL_MAP) |-> FALSE]]
    /\ results_state = [s \in Sessions |-> << >>]
    /\ input_section = [s \in Sessions |-> TRUE]
    /\ results_section = [s \in Sessions |-> FALSE]
    /\ error_msg = [s \in Sessions |-> [value |-> << >>, visible |-> FALSE]]
    /\ question_display = [s \in Sessions |-> << >>]
    /\ result_card = [s \in Sessions |-> [i \in Slots |-> FALSE]]
    /\ pref_btn = [s \in Sessions |-> [i \in Slots |-> FALSE]]
    /\ compare_ret = [s \in Sessions |-> [results |-> << >>, error |-> << >>]]
    /\ calls = [s \in Sessions |-> << >>]
    /\ pc = [s \in Sessions |-> "idle"]
    /\ model_index = [s \in Sessions |-> 0]
    /\ file_exists = [s \in Sessions |-> FALSE]
    /\ last_event = [s \in Sessions |-> "none"]
    /\ csv_exists = FALSE
    /\ csv_rows = << >>
    /\ now = 0

\* ------------------------------------------------------------- input edits
EditQuestion(s, q) ==
    /\ pc[s] = "idle"
    /\ input_section[s]
    /\ q # question_input[s]
    /\ question_input' = [question_input EXCEPT ![s] = q]
    /\ UNCHANGED << output_length, model_checkboxes, results_state, view,
                    cards, compare_ret, calls, locals, last_event, storage >>

EditLength(s, l) ==
    /\ pc[s] = "idle"
    /\ input_section[s]
    /\ l # output_length[s]
    /\ output_length' = [output_length EXCEPT ![s] = l]
    /\ UNCHANGED << question_input, model_checkboxes, results_state, view,
                    cards, compare_ret, calls, locals, last_event, storage >>

ToggleModel(s, i) ==
    /\ pc[s] = "idle"
    /\ input_section[s]
    /\ model_checkboxes' = [model_checkboxes EXCEPT ![s][i] = ~model_checkboxes[s][i]]
    /\ UNCHANGED << question_input, output_length, results_state, view,
                    cards, compare_ret, calls, locals, last_event, storage >>

\* ---------------------------------------------------------------- handlers
\* question_info of show_results
question_info(question, length) ==
    << "**Your question:** " >> \o question \o << "  \n**Answer length:** ", length >>

\* show_results: the whole handler of the compare button.  The value of a
\* result card is a rendering of results[i] and output_length; its visibility
\* is kept.
show_results(s, failing) ==
    LET r == compare_models(question_input[s], output_length[s],
                            model_checkboxes[s], failing) IN
    /\ pc[s] = "idle"
    /\ compare_ret' = [compare_ret EXCEPT ![s] = [results |-> r.results, error |-> r.error]]
    /\ calls' = [calls EXCEPT ![s] = r.calls]
    /\ last_event' = [last_event EXCEPT ![s] = "show_results"]
    /\ IF r.error # << >>
       THEN /\ error_msg' = [error_msg EXCEPT ![s] = [value |-> << "(warning) " >> \o r.error,
                                                       visible |-> TRUE]]
            /\ input_section' = [input_section EXCEPT ![s] = TRUE]
            /\ results_section' = [results_section EXCEPT ![s] = FALSE]
            /\ results_state' = [results_state EXCEPT ![s] = << >>]
            /\ result_card' = [result_card EXCEPT ![s] = [i \in Slots |-> FALSE]]
            /\ pref_btn' = [pref_btn EXCEPT ![s] = [i \in Slots |-> FALSE]]
            /\ UNCHANGED question_display
       ELSE /\ error_msg' = [error_msg EXCEPT ![s].visible = FALSE]
            /\ input_section' = [input_section EXCEPT ![s] = FALSE]
            /\ results_section' = [results_section EXCEPT ![s] = TRUE]
            /\ results_state' = [results_state EXCEPT ![s] = r.results[1]]
            /\ question_display' = [question_display EXCEPT ![s] =
                   question_info(question_input[s], output_length[s])]
            /\ result_card' = [result_card EXCEPT ![s] =
                                  [i \in Slots |-> i - 1 < Len(r.results[1])]]
            /\ pref_btn' = [pref_btn EXCEPT ![s] =
                               [i \in Slots |-> i - 1 < Len(r.results[1])]]
    /\ UNCHANGED << inputs, locals, storage >>

\* the navigation dict returned by record_preference and go_back
ReturnToInput(s) ==
    /\ input_section' = [input_section EXCEPT ![s] = TRUE]
    /\ results_section' = [results_section EXCEPT ![s] = FALSE]
    /\ error_msg' = [error_msg EXCEPT ![s].visible = FALSE]

\* go_back that leaves the results column on the page
go_back_results_still_shown(s) ==
    /\ pc[s] = "idle"
    /\ input_section' = [input_section EXCEPT ![s] = TRUE]
    /\ error_msg' = [error_msg EXCEPT ![s].visible = FALSE]
    /\ last_event' = [last_event EXCEPT ![s] = "go_back"]
    /\ UNCHANGED << inputs, results_state, results_section, cards, compare_ret,
                    calls, locals, storage >>

go_back(s) ==
    /\ pc[s] = "idle"
    /\ ReturnToInput(s)
    /\ last_event' = [last_event EXCEPT ![s] = "go_back"]
    /\ UNCHANGED << inputs, results_state, cards, compare_ret, calls,
                    locals, storage >>

\* record_preference with the bound test model_index > len(results)
record_preference_off_by_one(s, i) ==
    /\ pc[s] = "idle"
    /\ IF results_state[s] = << >> \/ i > Len(results_state[s])
       THEN /\ ReturnToInput(s)
            /\ last_event' = [last_event EXCEPT ![s] = "record_noop"]
            /\ UNCHANGED << pc, file_exists >>
       ELSE /\ Len(DataRows(csv_rows)) < MaxRows
            /\ pc' = [pc EXCEPT ![s] = "open"]
            /\ file_exists' = [file_exists EXCEPT ![s] = csv_exists]
            /\ UNCHANGED << view, last_event >>
    /\ model_index' = [model_index EXCEPT ![s] = i]
    /\ UNCHANGED << inputs, results_state, cards, compare_ret, calls, storage >>

\* record_preference(model_index, ...) up to Path(csv_file).exists(): the
\* early return, or the existence check of save_preference_to_storage
record_preference(s, i) ==
    /\ pc[s] = "idle"
    /\ IF results_state[s] = << >> \/ i >= Len(results_state[s])
       THEN /\ ReturnToInput(s)
            /\ last_event' = [last_event EXCEPT ![s] = "record_noop"]
            /\ UNCHANGED << pc, file_exists >>
       ELSE /\ Len(DataRows(csv_rows)) < MaxRows
            /\ pc' = [pc EXCEPT ![s] = "open"]
            /\ file_exists' = [file_exists EXCEPT ![s] = csv_exists]
            /\ UNCHANGED << view, last_event >>
    /\ model_index' = [model_index EXCEPT ![s] = i]
    /\ UNCHANGED << inputs, results_state, cards, compare_ret, calls, storage >>

\* an exception leaves record_preference: the handler ends without its
\* outputs and the event reports the error
Raise(s) ==
    /\ pc' = [pc EXCEPT ![s] = "idle"]
    /\ file_exists' = [file_exists EXCEPT ![s] = FALSE]
    /\ last_event' = [last_event EXCEPT ![s] = "record_raised"]
    /\ UNCHANGED << inputs, results_state, view, cards, compare_ret, calls,
                    model_index >>

\* open(csv_file, 'a') succeeds: append mode creates a missing file
save_open(s) ==
    /\ pc[s] = "open"
    /\ pc' = [pc EXCEPT ![s] = "write"]
    /\ csv_exists' = TRUE
    /\ UNCHANGED << inputs, results_state, view, cards, compare_ret, calls,
                    model_index, file_exists, last_event, csv_rows, now >>

\* open(csv_file, 'a') raises OSError
save_open_fails(s) ==
    /\ pc[s] = "open"
    /\ Raise(s)
    /\ UNCHANGED storage

\* save_write on a file opened with 'w': the rows replace the file
save_write_truncating(s) ==
    /\ pc[s] = "write"
    /\ now' = now + 1
    /\ csv_rows' =
         RowsWritten(file_exists[s], now', question_input[s], output_length[s],
                     results_state[s][model_index[s] + 1].model,
                     results_state[s])
    /\ ReturnToInput(s)
    /\ pc' = [pc EXCEPT ![s] = "idle"]
    /\ file_exists' = [file_exists EXCEPT ![s] = FALSE]
    /\ last_event' = [last_event EXCEPT ![s] = "record_saved"]
    /\ UNCHANGED << inputs, results_state, cards, compare_ret, calls,
                    model_index, csv_exists >>

\* the rows are written and the file is closed: the buffered rows reach the
\* end of the file in one append; then record_preference returns
save_write(s) ==
    /\ pc[s] = "write"
    /\ now' = now + 1
    /\ csv_rows' = csv_rows \o
         RowsWritten(file_exists[s], now', question_input[s], output_length[s],
                     results_state[s][model_index[s] + 1].model,
                     results_state[s])
    /\ ReturnToInput(s)
    /\ pc' = [pc EXCEPT ![s] = "idle"]
    /\ file_exists' = [file_exists EXCEPT ![s] = FALSE]
    /\ last_event' = [last_event EXCEPT ![s] = "record_saved"]
    /\ UNCHANGED << inputs, results_state, cards, compare_ret, calls,
                    model_index, csv_exists >>

\* a failed write caught inside record_preference, which then returns as usual
save_write_fails_swallowed(s) ==
    /\ pc[s] = "write"
    /\ ReturnToInput(s)
    /\ pc' = [pc EXCEPT ![s] = "idle"]
    /\ file_exists' = [file_exists EXCEPT ![s] = FALSE]
    /\ last_event' = [last_event EXCEPT ![s] = "record_saved"]
    /\ UNCHANGED << inputs, results_state, cards, compare_ret, calls,
                    model_index, storage >>

\* the write or the close raises OSError: nothing reaches the file
save_write_fails(s) ==
    /\ pc[s] = "write"
    /\ Raise(s)
    /\ UNCHANGED storage

\* ------------------------------------------------------- events of the page
\* the labels checked in a session
Checked(s) == { MODEL_MAP_keys[i] : i \in { j \in 1..Len(MODEL_MAP) : model_checkboxes[s][j] } }

compare_btn_click(s, failing) ==
    /\ input_section[s]
    /\ show_results(s, failing)

back_btn_click(s) ==
    /\ results_section[s]
    /\ go_back(s)

\* pref_btn_<k>.click, k = i + 1
pref_btn_click(s, i) ==
    /\ results_section[s]
    /\ pref_btn[s][i + 1]
    /\ record_preference(s, i)

\* ---------------------------------------------------------- specifications
\* the questions typed in the page flows below
UiQuestions == { << >>, << "a" >>, << "b" >> }

\* one session from the freshly built page: edits, compare, back, the
\* preference buttons and the steps of a running record
NextUI ==
    \E s \in {1} :
        \/ \E q \in UiQuestions : EditQuestion(s, q)
        \/ \E l \in LengthChoices : EditLength(s, l)
        \/ ToggleModel(s, 1)
        \/ \E failing \in SUBSET Checked(s) : compare_btn_click(s, failing)
        \/ back_btn_click(s)
        \/ \E i \in 0..3 : pref_btn_click(s, i)
        \/ save_open(s)
        \/ save_open_fails(s)
        \/ save_write(s)
        \/ save_write_fails(s)

SpecUI == Init /\ [][NextUI]_vars

\* the page with the form of session s filled in
Typed(s, q, l, boxes) ==
    /\ question_input = [t \in Sessions |-> IF t = s THEN q ELSE << >>]
    /\ output_length = [t \in Sessions |-> IF t = s THEN l ELSE "Medium"]
    /\ model_checkboxes = [t \in Sessions |->
                              IF t = s THEN boxes
                              ELSE [i \in 1..Len(MODEL_MAP) |-> FALSE]]
    /\ results_state = [t \in Sessions |-> << >>]
    /\ input_section = [t \in Sessions |-> TRUE]
    /\ results_section = [t \in Sessions |-> FALSE]
    /\ error_msg = [t \in Sessions |-> [value |-> << >>, visible |-> FALSE]]
    /\ question_display = [t \in Sessions |-> << >>]
    /\ result_card = [t \in Sessions |-> [i \in Slots |-> FALSE]]
    /\ pref_btn = [t \in Sessions |-> [i \in Slots |-> FALSE]]
    /\ compare_ret = [t \in Sessions |-> [results |-> << >>, error |-> << >>]]
    /\ calls = [t \in Sessions |-> << >>]
    /\ pc = [t \in Sessions |-> "idle"]
    /\ model_index = [t \in Sessions |-> 0]
    /\ file_exists = [t \in Sessions |-> FALSE]
    /\ last_event = [t \in Sessions |-> "none"]
    /\ csv_exists = FALSE
    /\ csv_rows = << >>
    /\ now = 0

\* compare_models on every question, length and selection: one session has
\* filled in the form and clicks the compare button
InitCompare ==
    \E q \in Strings(MaxLen), l \in LengthChoices,
       boxes \in [1..Len(MODEL_MAP) -> BOOLEAN] : Typed(1, q, l, boxes)

NextCompare ==
    \E failing \in SUBSET Checked(1) : compare_btn_click(1, failing)

SpecCompare == InitCompare /\ [][NextCompare]_vars

\* the handlers called on any stored result list with any button index: one
\* session has filled in the form; the handlers run whatever the page shows
InitHandlers ==
    \E q \in { << >>, << "a" >> }, boxes \in [1..Len(MODEL_MAP) -> BOOLEAN] :
        Typed(1, q, "Short", boxes)

NextHandlers ==
    \E s \in {1} :
        \/ \E failing \in { {}, Checked(s) } : show_results(s, failing)
        \/ go_back(s)
        \/ \E i \in 0..3 : record_preference(s, i)
        \/ save_open(s)
        \/ save_open_fails(s)
        \/ save_write(s)
        \/ save_write_fails(s)

SpecHandlers == InitHandlers /\ [][NextHandlers]_vars

\* the models whose requests may fail while two sessions are followed
Unreliable == { "Llama 3.1 8B" }

\* two sessions that have filled in the same form; their record operations
\* interleave on the one preference log
InitSessions ==
    /\ question_input = [t \in Sessions |-> << "a" >>]
    /\ output_length = [t \in Sessions |-> "Short"]
    /\ model_checkboxes = [t \in Sessions |-> << TRUE, FALSE, TRUE, FALSE >>]
    /\ results_state = [t \in Sessions |-> << >>]
    /\ input_section = [t \in Sessions |-> TRUE]
    /\ results_section = [t \in Sessions |-> FALSE]
    /\ error_msg = [t \in Sessions |-> [value |-> << >>, visible |-> FALSE]]
    /\ question_display = [t \in Sessions |-> << >>]
    /\ result_card = [t \in Sessions |-> [i \in Slots |-> FALSE]]
    /\ pref_btn = [t \in Sessions |-> [i \in Slots |-> FALSE]]
    /\ compare_ret = [t \in Sessions |-> [results |-> << >>, error |-> << >>]]
    /\ calls = [t \in Sessions |-> << >>]
    /\ pc = [t \in Sessions |-> "idle"]
    /\ model_index = [t \in Sessions |-> 0]
    /\ file_exists = [t \in Sessions |-> FALSE]
    /\ last_event = [t \in Sessions |-> "none"]
    /\ csv_exists = FALSE
    /\ csv_rows = << >>
    /\ now = 0

Next ==
    \E s \in Sessions :
        \/ \E failing \in SUBSET (Checked(s) \cap Unreliable) :
              compare_btn_click(s, failing)
        \/ back_btn_click(s)
        \/ \E i \in 0..3 : pref_btn_click(s, i)
        \/ save_open(s)
        \/ save_open_fails(s)
        \/ save_write(s)
        \/ save_write_fails(s)

Spec == InitSessions /\ [][Next]_vars

\* the same two sessions on a storage that never fails
NextRace ==
    \E s \in Sessions :
        \/ \E failing \in SUBSET (Checked(s) \cap Unreliable) :
              compare_btn_click(s, failing)
        \/ back_btn_click(s)
        \/ \E i \in 0..3 : pref_btn_click(s, i)
        \/ save_open(s)
        \/ save_write(s)

SpecRace == InitSessions /\ [][NextRace]_vars

\* ------------------------------------------------------------- properties
\* a question that is empty or only whitespace
Blank(q) == \A k \in 1..Len(q) : q[k] \in Whitespace

\* the compare handler was the last to run in session s
Compared(s) == last_event[s] = "show_results"

\* the checked labels of session s in the order of the registry
SelectedInOrder(s) == SelectSeq(MODEL_MAP_keys, LAMBDA m : m \in Checked(s))

\* the comparison of session s was a valid one
ValidComparison(s) ==
    /\ Compared(s)
    /\ ~Blank(question_input[s])
    /\ Checked(s) # {}

\* C1: a comparison of an empty or whitespace-only question returns no result
\* list and 'Please enter a question.', whatever the selection of models, and
\* sends no request.
C1_EmptyQuestion ==
    \A s \in Sessions :
        (Compared(s) /\ Blank(question_input[s])) =>
            /\ compare_ret[s] = [results |-> << >>,
                                 error |-> << "Please enter a question." >>]
            /\ calls[s] = << >>

\* a whitespace-only question compared with no model selected
C1_Witness ==
    /\ Compared(1)
    /\ question_input[1] # << >>
    /\ Blank(question_input[1])
    /\ Checked(1) = {}
    /\ compare_ret[1].error = << "Please enter a question." >>

\* C2: a comparison of a non-blank question with no model selected returns no
\* result list and 'Please select at least one model.', and sends no request.
C2_NoModelSelected ==
    \A s \in Sessions :
        (Compared(s) /\ ~Blank(question_input[s]) /\ Checked(s) = {}) =>
            /\ compare_ret[s] = [results |-> << >>,
                                 error |-> << "Please select at least one model." >>]
            /\ calls[s] = << >>

\* a question with surrounding whitespace compared with no model selected
C2_Witness ==
    /\ Compared(1)
    /\ question_input[1] = << " ", "a" >>
    /\ Checked(1) = {}
    /\ compare_ret[1].results = << >>

\* C3: a valid comparison of N selected models sends exactly N requests, one
\* per selected model in registry order, each with the question and the token
\* budget of the length, and returns N results whose models are the selected
\* ones in registry order, none twice.
C3_OneCallPerModel ==
    \A s \in Sessions :
        ValidComparison(s) =>
            LET sel == SelectedInOrder(s) IN
            /\ compare_ret[s].error = << >>
            /\ Len(compare_ret[s].results) = 1
            /\ LET rs == compare_ret[s].results[1] IN
               /\ Len(rs) = Len(sel)
               /\ \A k \in 1..Len(sel) : rs[k].model = sel[k]
               /\ \A j, k \in 1..Len(rs) : j # k => rs[j].model # rs[k].model
            /\ Len(calls[s]) = Len(sel)
            /\ \A k \in 1..Len(calls[s]) :
                  /\ k <= Len(sel)
                  /\ << calls[s][k].model >> = MODEL_MAP_get(sel[k])
                  /\ calls[s][k].question = question_input[s]
                  /\ calls[s][k].max_tokens = LENGTH_MAP[output_length[s]]

\* three models selected, the third of the registry left out, one call failing
C3_Witness ==
    /\ ValidComparison(1)
    /\ model_checkboxes[1] = << TRUE, TRUE, FALSE, TRUE >>
    /\ Len(calls[1]) = 3
    /\ calls[1][2].raised
    /\ ~calls[1][3].raised

\* C4: in a valid comparison, whichever requests fail, the full list comes
\* back with no error: the entry of a failed request begins with 'Error: '
\* and carries the failure, the entry of an answered request is the
\* completion text.
C4_FailuresStayInTheirSlot ==
    \A s \in Sessions :
        ValidComparison(s) =>
            /\ compare_ret[s].error = << >>
            /\ Len(compare_ret[s].results) = 1
            /\ LET rs == compare_ret[s].results[1] IN
               /\ Len(rs) = Cardinality(Checked(s))
               /\ Len(calls[s]) >= Len(rs)
               /\ \A k \in 1..Len(rs) :
                    LET answer == chat_completions_create(
                                      question_input[s], MODEL_MAP_get(rs[k].model)[1],
                                      LENGTH_MAP[output_length[s]], FALSE).text
                        failed == \E c \in 1..Len(calls[s]) :
                                      /\ << calls[s][c].model >> = MODEL_MAP_get(rs[k].model)
                                      /\ calls[s][c].raised IN
                    IF failed THEN rs[k].response = << "Error: " >> \o answer
                    ELSE rs[k].response = answer

\* every model selected and every request failing
C4_Witness ==
    /\ ValidComparison(1)
    /\ Cardinality(Checked(1)) = Len(MODEL_MAP)
    /\ \A k \in 1..Len(calls[1]) : calls[1][k].raised
    /\ Len(compare_ret[1].results[1]) = Len(MODEL_MAP)

\* the members of a JSON object text read back, from token i on
RECURSIVE parse_members(_, _, _)
parse_members(t, i, acc) ==
    IF i + 5 > Len(t) \/ t[i] = "}" THEN acc
    ELSE LET close == CHOOSE j \in (i + 5)..Len(t) :
                          /\ t[j] = "\""
                          /\ \A k \in (i + 5)..(j - 1) : t[k] # "\""
             after == IF close + 1 <= Len(t) /\ t[close + 1] = ","
                      THEN close + 2 ELSE close + 1 IN
         parse_members(t, after, Append(acc, << t[i + 1], SubSeq(t, i + 5, close - 1) >>))

\* json.loads of a cell: the <<key, value>> members in their order
json_loads(t) == parse_members(t, 2, << >>)

\* cell.split(sep)
split(sep, t) == SelectSeq(t, LAMBDA x : x # sep)

\* the step is the one in which the record operation of session s ends
\* normally with its rows written
Saves(s) ==
    /\ pc[s] = "write"
    /\ pc'[s] = "idle"
    /\ last_event'[s] = "record_saved"

\* the rows a step adds at the end of the log
Added == SubSeq(csv_rows', Len(csv_rows) + 1, Len(csv_rows'))

\* the positions of the header in the log
HeaderPositions == { k \in 1..Len(csv_rows) : csv_rows[k] = HeaderRow }

\* C5: whatever record operations have run, of one session or of several
\* with their steps interleaved, a log with rows has exactly one header row,
\* and it is the first row.
C5_HeaderExactlyOnce ==
    csv_rows # << >> => HeaderPositions = {1}

\* C6: the log only grows at its end and no written row changes; a record
\* operation that ends normally adds exactly one data row, the last row of the
\* log, made of the question, the length, the chosen model and the results
\* it was given, also when the log already holds such a row.
C6_AppendOnly ==
    [][ /\ Len(csv_rows') >= Len(csv_rows)
        /\ SubSeq(csv_rows', 1, Len(csv_rows)) = csv_rows
        /\ csv_rows' # csv_rows => \E s \in Sessions : Saves(s)
        /\ \A s \in Sessions :
             Saves(s) =>
                 /\ Len(DataRows(Added)) = 1
                 /\ Len(Added) <= 2
                 /\ LET row == csv_rows'[Len(csv_rows')] IN
                    /\ row # HeaderRow
                    /\ row[2] = question_input[s]
                    /\ row[3] = << output_length[s] >>
                    /\ row[4] = << results_state[s][model_index[s] + 1].model >>
                    /\ split("|", row[5]) =
                         [k \in 1..Len(results_state[s]) |-> results_state[s][k].model]
                    /\ Len(json_loads(row[6])) = Len(results_state[s])
      ]_vars

\* two rows of the log that differ in the timestamp only
C6_Witness ==
    \E j, k \in 1..Len(csv_rows) :
        /\ j < k
        /\ csv_rows[j] # HeaderRow
        /\ csv_rows[j][1] # csv_rows[k][1]
        /\ SubSeq(csv_rows[j], 2, 6) = SubSeq(csv_rows[k], 2, 6)

\* C7: the row of a preference recorded with index i has selected_model the
\* model of result i, all_models_compared the models of all results in their
\* order joined by '|', and all_responses_json an object that reads back as
\* every compared model with the response the result list holds for it.
C7_RowHoldsTheChoiceSet ==
    [][ \A s \in Sessions :
          Saves(s) =>
              LET row == csv_rows'[Len(csv_rows')]
                  rs == results_state[s] IN
              /\ row[4] = << rs[model_index[s] + 1].model >>
              /\ row[5] = join("|", [k \in 1..Len(rs) |-> rs[k].model])
              /\ split("|", row[5]) = [k \in 1..Len(rs) |-> rs[k].model]
              /\ json_loads(row[6]) =
                   [k \in 1..Len(rs) |-> << rs[k].model, rs[k].response >>]
      ]_vars

\* a row that chose the second of two compared models, one of them failed
C7_Witness ==
    \E k \in 1..Len(csv_rows) :
        /\ csv_rows[k] # HeaderRow
        /\ csv_rows[k][4] = << "GPT OSS 20B" >>
        /\ csv_rows[k][5] = << "Llama 3.1 8B", "|", "GPT OSS 20B" >>
        /\ \E m \in 1..2 : json_loads(csv_rows[k][6])[m][2][1] = "Error: "
        /\ \E m \in 1..2 : json_loads(csv_rows[k][6])[m][2][1] # "Error: "

\* the index is not one of the stored results of session s
OutOfRange(s, i) == results_state[s] = << >> \/ i >= Len(results_state[s])

\* C8: record_preference called with an empty result list or an index at or
\* past its end writes nothing (no row, no header, no file), raises nothing
\* and shows the input view with the results view hidden.
C8_OutOfRangeIsNoOp ==
    [][ \A s \in Sessions : \A i \in 0..3 :
          (record_preference(s, i) /\ OutOfRange(s, i)) =>
              /\ UNCHANGED storage
              /\ pc'[s] = "idle"
              /\ last_event'[s] = "record_noop"
              /\ input_section'[s]
              /\ ~results_section'[s]
              /\ UNCHANGED << results_state, inputs >>
      ]_vars

\* the handler has returned from an index just past the end of a non-empty
\* result list, with no file on disk
C8_Witness ==
    /\ last_event[1] = "record_noop"
    /\ results_state[1] # << >>
    /\ model_index[1] = Len(results_state[1])
    /\ input_section[1]
    /\ ~results_section[1]
    /\ ~csv_exists

\* the step belongs to a record operation of session s
Recording(s) == pc[s] # "idle" \/ pc'[s] # "idle"

\* C9: a record operation sends no request and changes neither the stored
\* results nor the form; when its append fails it ends at once with the error
\* raised, the page as it was, so that the same button on the same results
\* can be used again.
C9_FailedAppendIsSurfaced ==
    [][ \A s \in Sessions :
          /\ Recording(s) =>
               /\ calls'[s] = calls[s]
               /\ results_state'[s] = results_state[s]
               /\ question_input'[s] = question_input[s]
               /\ output_length'[s] = output_length[s]
          /\ (pc[s] # "idle" /\ pc'[s] = "idle" /\ csv_rows' = csv_rows) =>
               /\ last_event'[s] = "record_raised"
               /\ input_section'[s] = input_section[s]
               /\ results_section'[s]
               /\ pref_btn'[s][model_index'[s] + 1]
               /\ model_index'[s] < Len(results_state'[s])
      ]_vars

\* a write has failed on a file the open had just created; the results are
\* still shown
C9_Witness ==
    /\ last_event[1] = "record_raised"
    /\ csv_exists
    /\ csv_rows = << >>
    /\ results_section[1]
    /\ results_state[1] # << >>

\* the response is an answer (or a failure) of the service to this question
\* with the budget of this length
AnswersTo(response, model, question, length) ==
    LET answer == chat_completions_create(question, MODEL_MAP_get(model)[1],
                                          LENGTH_MAP[length], FALSE).text IN
    response \in { answer, << "Error: " >> \o answer }

=============================================================================
